---- MODULE Spec2Model ----
(***************************************************************************)
(* A model of the momentum tensor compiler: the graph construction API     *)
(* (src/src/graph.rs), the lowering pass WgpuCompiler::compile             *)
(* (src/src/wgpu/compiler.rs) and the plan runner WgpuRunner               *)
(* (src/src/wgpu/runner.rs).                                               *)
(*                                                                         *)
(* ExprIds are 0-based as in the source; TLA+ sequences are 1-based, so    *)
(* the entry of node id in a table t is t[id + 1] (written At(t, id)).     *)
(*                                                                         *)
(* graph.rs as present in the sources tracks usages (a map from user id to *)
(* a count); compiler.rs reads graph.last_usages(), graph.exprs,           *)
(* ExprBody::Input/Const and the op families Elemwise/Reduce/Movement,     *)
(* whose declarations are not among the sources.  Those parts (the         *)
(* last_usages snapshot and the layout inference of Sin, Reduce and       *)
(* Movement ops) are modelled from the specification text.                 *)
(*                                                                         *)
(* Four specifications share the variables.  Spec builds, compiles and     *)
(* runs a graph.  SpecTensor applies the constructors and views of         *)
(* tensor.rs to bounded dims arrays.  SpecDispatch computes the dispatch   *)
(* shape of compile for element counts up to and beyond 2^32.  SpecDevice  *)
(* interleaves the host thread of WgpuRunner (compute passes, retrieve)    *)
(* with the device completing its queue in submission order.              *)
(***************************************************************************)
EXTENDS Integers, Sequences, FiniteSets, TLC

\* graph .. results: a graph built, compiled and run.  calc: a value of
\* tensor.rs under computation.  gpu: the device queue and the host
\* thread of WgpuRunner.
VARIABLES graph, pc, plan, runnable, buffers, ip, results, calc, gpu

vars == <<graph, pc, plan, runnable, buffers, ip, results, calc, gpu>>

(* ---------------------------- bounds ---------------------------------- *)

\* Largest number of nodes a graph is grown to.
MaxNodes == 3

\* Largest number of construction calls (nodes added plus outputs marked).
MaxCalls == 4

\* Largest rank and largest dimension size of the shapes tensor.rs is
\* exercised with.
MaxRank == 3
MaxDim == 3

\* Largest value of the third 16-bit limb of an element count, i.e. element
\* counts up to (MaxHigh + 1) * 2^32 - 1.
MaxHigh == 1

\* Largest number of submissions made to the device queue.
MaxSubmissions == 4

\* Lengths of the children slices handed to add_op: for an elementwise op
\* 0, 1 or 2 (1 is too few for Add, 2 too many for Sin), for a Reduce or a
\* Movement op 0 or 1.
ChildCounts(op) == IF op.family = "Elemwise" THEN {0, 1, 2} ELSE {0, 1}

(* ------------------------ program constants --------------------------- *)

\* WgpuCompiler::default().workgroup_size_x
workgroup_size_x == 256

\* mem::size_of::<f32>()
SizeOfF32 == 4

\* Half of the width of u32: `as u32` keeps the low two 16-bit halves.
HalfWord == 65536

(* --------------------------- helpers ---------------------------------- *)

At(t, id) == t[id + 1]

RECURSIVE Product(_)
Product(s) == IF s = <<>> THEN 1 ELSE Head(s) * Product(Tail(s))

SetMax(S) == CHOOSE m \in S : \A x \in S : x <= m

Range(s) == {s[i] : i \in 1..Len(s)}

Reverse(s) == [i \in 1..Len(s) |-> s[Len(s) + 1 - i]]

\* Vec::remove(index): the vector without the element at 0-based index.
RemoveAt(s, index) ==
    [i \in 1..(Len(s) - 1) |-> IF i <= index THEN s[i] ELSE s[i + 1]]

(* ----------------------- tensor.rs: Shape, Layout --------------------- *)

\* Strides whose products start at the dimension itself.
contiguous_from_own_dim(dims) ==
    [dims    |-> dims,
     strides |-> [i \in 1..(Len(dims) - 1) |->
                      Product(SubSeq(dims, i, Len(dims)))] \o <<1>>]

\* Shape::contiguous: strides = (1..len).map(product of dims[start..])
\* chained with a final 1.
contiguous(dims) ==
    [dims    |-> dims,
     strides |-> [i \in 1..(Len(dims) - 1) |->
                      Product(SubSeq(dims, i + 1, Len(dims)))] \o <<1>>]

\* Shape::elements
elements(layout) == Product(layout.dims)

\* Layout::size
size(layout) == elements(layout) * SizeOfF32

\* `x as u32` for a usize x, computed on 16-bit halves (2^32 itself is
\* beyond TLC's integers).
as_u32(x) == (x % HalfWord) + HalfWord * ((x \div HalfWord) % HalfWord)

\* u32::div_ceil
div_ceil(a, b) == (a + b - 1) \div b

\* A usize beyond TLC's integers is held as its four 16-bit limbs, most
\* significant first.
Wide(e2, e1, e0) == <<0, e2, e1, e0>>

\* `x as u32` on limbs: the low 32 bits, i.e. the last two limbs.
wide_as_u32(x) == SubSeq(x, Len(x) - 1, Len(x))

\* Quotient and remainder of a limb sequence by b (long division).
RECURSIVE LongDiv(_, _)
LongDiv(x, b) ==
    IF x = <<>> THEN [q |-> 0, r |-> 0]
    ELSE LET d   == LongDiv(SubSeq(x, 1, Len(x) - 1), b)
             cur == d.r * HalfWord + x[Len(x)]
         IN  [q |-> d.q * HalfWord + (cur \div b), r |-> cur % b]

\* u32::div_ceil on limbs: the quotient, plus one if there is a remainder.
wide_div_ceil(x, b) == LET d == LongDiv(x, b) IN d.q + (IF d.r > 0 THEN 1 ELSE 0)

\* Layout::scalar
scalar == contiguous(<<>>)

\* Layout::reshape: Self { shape }
reshape(layout, shape) == shape

\* Tensor::from_parts
from_parts(data, layout) == [data |-> data, layout |-> layout]

\* Tensor::reshape: self.layout.shape = shape; self
tensor_reshape(tensor, shape) == [tensor EXCEPT !.layout = shape]

\* Tensor::from_scalar(value); the data is kept as a provenance record
\* [src, id, args] so that buffers can be told apart.
from_scalar(value) ==
    [data |-> [src |-> "const", id |-> value, args |-> <<>>], layout |-> scalar]

(* Movement and Reduce layout inference (not in the sources; from the     *)
(* data model of the specification).                                       *)

\* Squeeze: drop every dimension of size 1, keeping strides paired.
RECURSIVE SqueezeIdx(_, _)
SqueezeIdx(dims, i) ==
    IF i > Len(dims) THEN <<>>
    ELSE (IF dims[i] = 1 THEN <<>> ELSE <<i>>) \o SqueezeIdx(dims, i + 1)

squeeze(layout) ==
    LET keep == SqueezeIdx(layout.dims, 1)
    IN  [dims    |-> [k \in 1..Len(keep) |-> layout.dims[keep[k]]],
         strides |-> [k \in 1..Len(keep) |->
                          IF keep[k] <= Len(layout.strides)
                          THEN layout.strides[keep[k]] ELSE 1]]

\* A swap without a temporary: the innermost entry is copied outwards.
transpose_no_temp(layout) ==
    LET n == Len(layout.dims)
        sw(s) == [i \in 1..Len(s) |-> IF i = n - 1 THEN s[n] ELSE s[i]]
    IN  IF n < 2 \/ Len(layout.strides) # n THEN layout
        ELSE [dims |-> sw(layout.dims), strides |-> sw(layout.strides)]

\* Transpose: swap the two innermost dimension sizes and their strides.
transpose(layout) ==
    LET n == Len(layout.dims)
        sw(s) == [i \in 1..Len(s) |->
                     IF i = n - 1 THEN s[n] ELSE IF i = n THEN s[n - 1] ELSE s[i]]
    IN  IF n < 2 \/ Len(layout.strides) # n THEN layout
        ELSE [dims |-> sw(layout.dims), strides |-> sw(layout.strides)]

\* A Reduce that reads the listed dimensions as 1-based positions.
reduce_layout_one_based(layout, dims) ==
    [layout EXCEPT !.dims = [i \in 1..Len(layout.dims) |->
                                 IF i \in dims THEN 1 ELSE layout.dims[i]]]

\* Reduce: every listed dimension (0-based) forced to size 1.
reduce_layout(layout, dims) ==
    [layout EXCEPT !.dims = [i \in 1..Len(layout.dims) |->
                                 IF (i - 1) \in dims THEN 1 ELSE layout.dims[i]]]

(* ------------------------------ ops ----------------------------------- *)

OpAdd     == [family |-> "Elemwise", name |-> "Add",     dims |-> {}]
OpMul     == [family |-> "Elemwise", name |-> "Mul",     dims |-> {}]
OpSin     == [family |-> "Elemwise", name |-> "Sin",     dims |-> {}]
OpSum     == [family |-> "Reduce",   name |-> "Sum",     dims |-> {0}]
OpSqueeze == [family |-> "Movement", name |-> "Squeeze", dims |-> {}]
OpTranspose == [family |-> "Movement", name |-> "Transpose", dims |-> {}]

\* The ops add_op is called with.
Ops == {OpAdd, OpSin, OpSum, OpSqueeze}

\* The layouts add_input is called with.
InputLayouts == {contiguous(<<1, 2>>)}

\* The tensors add_constant is called with.
ConstTensors == {from_scalar(2)}

\* Op::infer_layout: an elementwise op takes the layout of children[0].
infer_layout(op, children_layouts) ==
    CASE op.family = "Elemwise" -> children_layouts[1]
      [] op.family = "Reduce"   -> reduce_layout(children_layouts[1], op.dims)
      [] op.name = "Squeeze"    -> squeeze(children_layouts[1])
      [] OTHER                  -> transpose(children_layouts[1])

(* --------------------------- graph.rs --------------------------------- *)

\* Graph::new
EmptyGraph == [inputs |-> <<>>, exprs |-> <<>>, outputs |-> <<>>]

\* A bounds check that lets the first id past the end through.
InBoundsOffByOne(exprs, id) == id <= Len(exprs)

\* Index<ExprId> for Graph: self.expressions[index.0] panics unless the
\* index is in bounds.
InBounds(exprs, id) == id < Len(exprs)

\* An entry that is inserted as 1 and never incremented.
bump_insert_only(usages, user) ==
    [k \in (DOMAIN usages) \cup {user} |-> IF k # user THEN usages[k] ELSE 1]

\* HashMap entry(user).and_modify(|instances| *instances += 1).or_insert(1)
bump(usages, user) ==
    [k \in (DOMAIN usages) \cup {user} |->
        IF k # user THEN usages[k]
        ELSE IF user \in DOMAIN usages THEN usages[user] + 1 ELSE 1]

\* Graph::add_usage (the caller has indexed self[expr])
add_usage(exprs, expr, user) ==
    [exprs EXCEPT ![expr + 1].usages = bump(@, user)]

\* A usages loop that records the first child only.
AddUsagesFirstChild(exprs, children, id) ==
    IF children = <<>> THEN [exprs |-> exprs, ok |-> TRUE]
    ELSE IF \E i \in 1..Len(children) : ~InBounds(exprs, children[i])
         THEN [exprs |-> exprs, ok |-> FALSE]
         ELSE [exprs |-> add_usage(exprs, Head(children), id), ok |-> TRUE]

\* The loop of Graph::add_expr over the children of an op: usages are
\* recorded child by child; the first child that does not exist panics
\* and leaves the usages recorded so far.
RECURSIVE AddUsages(_, _, _)
AddUsages(exprs, children, id) ==
    IF children = <<>> THEN [exprs |-> exprs, ok |-> TRUE]
    ELSE IF ~InBounds(exprs, Head(children))
         THEN [exprs |-> exprs, ok |-> FALSE]
         ELSE AddUsages(add_usage(exprs, Head(children), id), Tail(children), id)

\* Graph::add_expr_untracked, lines 238-244: the layouts of the children are
\* looked up with self[expr] (a panic when one is out of bounds), and
\* infer_layout indexes children[0] (a panic when there is none).
layouts_ok(exprs, children) ==
    /\ \A i \in 1..Len(children) : InBounds(exprs, children[i])
    /\ children # <<>>

children_layouts(exprs, children) ==
    [i \in 1..Len(children) |->
        IF children[i] < Len(exprs) THEN At(exprs, children[i]).layout ELSE scalar]

\* Graph::add_expr_untracked: the pushed ExprInfo.
NewExpr(body, layout) ==
    [kind     |-> body.kind,
     op       |-> body.op,
     children |-> body.children,
     tensor   |-> body.tensor,
     layout   |-> layout,
     usages   |-> <<>>]

NoOp == [family |-> "None", name |-> "None", dims |-> {}]
NoTensor == [data |-> [src |-> "none", id |-> 0, args |-> <<>>], layout |-> scalar]

\* Graph::add_input: the node is pushed and its id listed in inputs.
add_input(g, layout) ==
    [g EXCEPT
       !.inputs = Append(@, Len(g.exprs)),
       !.exprs  = Append(@, NewExpr([kind |-> "Input", op |-> NoOp,
                                     children |-> <<>>, tensor |-> NoTensor],
                                    layout))]

\* Graph::add_op = add_expr(ExprBody::Op): the usages loop, then
\* add_expr_untracked.  [graph, ok]; ok = FALSE after a panic, with the
\* usages recorded up to it.
add_op(g, op, children) ==
    LET id == Len(g.exprs)
        r  == AddUsages(g.exprs, children, id)
    IN  IF r.ok /\ layouts_ok(r.exprs, children)
        THEN [ok    |-> TRUE,
              graph |-> [g EXCEPT !.exprs =
                           Append(r.exprs,
                                  NewExpr([kind |-> "Op", op |-> op,
                                           children |-> children, tensor |-> NoTensor],
                                          infer_layout(op,
                                              children_layouts(r.exprs, children))))]]
        ELSE [ok |-> FALSE, graph |-> [g EXCEPT !.exprs = r.exprs]]

\* An add_output that also counts a usage of the node by itself.
add_output_tracked(g, expr) ==
    [g EXCEPT !.outputs = Append(@, expr),
              !.exprs = add_usage(@, expr, expr)]

\* Graph::add_output: self.outputs.push(expr)
add_output(g, expr) == [g EXCEPT !.outputs = Append(@, expr)]

\* Graph::last_usages: per node, the id of its most recent consumer, or
\* its own id when nothing has consumed it.
last_usages(g) ==
    [i \in 1..Len(g.exprs) |->
        IF DOMAIN g.exprs[i].usages = {} THEN i - 1
        ELSE SetMax(DOMAIN g.exprs[i].usages)]

(* ------------------------ wgpu/compiler.rs ---------------------------- *)

\* WgpuPlan before compile has produced one
NoPlan == [inputs |-> <<>>, steps |-> <<>>, outputs |-> <<>>, output_layouts |-> <<>>]

\* WgpuStep
Allocate(id, tensor) == [kind |-> "Allocate", id |-> id, tensor |-> tensor]
Deallocate(id) == [kind |-> "Deallocate", id |-> id]
Execute(output, source, workgroups, inputs, inputs_layout) ==
    [kind |-> "Execute", output |-> output, source |-> source,
     workgroups |-> workgroups, inputs |-> inputs, inputs_layout |-> inputs_layout]

\* Display for WgpuExpr: Add and Mul print children[0] and children[1]
\* (and panic without them); Sin prints all its children.
expr_ok(op, children) == op.name \in {"Add", "Mul"} => Len(children) >= 2

expr_to_string(op, children) ==
    [op   |-> op.name,
     vars |-> IF op.name \in {"Add", "Mul"} THEN SubSeq(children, 1, 2) ELSE children]

\* compile, line 72: the children collected into a HashMap keyed by child
\* id.  A child listed twice is one key, and keys() (kernel.rs, line 68)
\* walks the keys in an order the hasher fixes anew for every map: each
\* enumeration of the key set is a possible order.
key_orders(children) ==
    LET S == Range(children)
    IN  {s \in [1..Cardinality(S) -> S] :
           \A i, j \in 1..Cardinality(S) : i # j => s[i] # s[j]}

\* The buffers a kernel source declares (the template is not among the
\* sources): the output, then one per name of "inputs", in list order.
kernel_bindings(output, source) == <<output>> \o source.inputs

\* kernel::elemwise: what the template context is filled with.  keys is
\* the order in which layouts.keys() yields the child ids; "inputs" is the
\* list of names the template receives, in that order.
elemwise(wg, output_layout, children, layouts, expr, keys) ==
    [workgroup_size_x |-> wg,
     output  |-> output_layout,
     layouts |-> [c \in Range(children) |-> At(layouts, c)],
     inputs  |-> keys,
     expr    |-> expr]

\* compile, lines 93-97: the dispatch shape
workgroups(layout, wg) == <<div_ceil(as_u32(elements(layout)), wg), 1, 1>>

\* The same dispatch shape for an element count held as limbs.
wide_workgroups(E, wg) == <<wide_div_ceil(wide_as_u32(E), wg), 1, 1>>

\* compile, line 98: the bound ids, output first
execute_inputs(id, children) == <<id>> \o children

\* compile, lines 99-101: (size, read_only) per binding
inputs_layout(layout, children, layouts) ==
    <<<<size(layout), FALSE>>>> \o
    [i \in 1..Len(children) |-> <<size(At(layouts, children[i])), TRUE>>]

\* A filter that frees a child after each of its uses, not only the last.
dealloc_filter_every_use(lu, child, id) == At(lu, child) >= id

\* compile, lines 104-106: a Deallocate for every entry of children whose
\* last usage is this node
dealloc_filter(lu, child, id) == At(lu, child) = id

dealloc_steps(children, lu, id) ==
    LET sel == SelectSeq(children, LAMBDA child : dealloc_filter(lu, child, id))
    IN  [i \in 1..Len(sel) |-> Deallocate(sel[i])]

\* compile, lines 112-113: aliases.push(id); layouts.push(expr.layout)
self_alias(st, id, expr) ==
    [st EXCEPT !.aliases = Append(@, id), !.layouts = Append(@, expr.layout)]

\* An Input arm that allocates like the Const arm.
lower_input_allocating(st, id, expr) ==
    self_alias([st EXCEPT !.steps = Append(@, Allocate(id, expr.tensor))], id, expr)

\* compile, line 108: an Input node emits no step
lower_input(st, id, expr) == self_alias(st, id, expr)

\* A Const arm that hoists its Allocate to the front of the plan.
lower_const_hoisted(st, id, expr) ==
    self_alias([st EXCEPT !.steps = <<Allocate(id, expr.tensor)>> \o @], id, expr)

\* compile, line 109: a Const node emits Allocate { id, tensor }
lower_const(st, id, expr) ==
    self_alias([st EXCEPT !.steps = Append(@, Allocate(id, expr.tensor))], id, expr)

\* A Reduce arm that emits nothing and goes on.
lower_reduce_skip(st, id, expr) == self_alias(st, id, expr)

\* compile, line 85: Op::Reduce { .. } => todo!()
lower_reduce(st, id, expr) == [st EXCEPT !.ok = FALSE]

\* compile, lines 66-102: the Execute step of an elementwise node
execute_step(st, id, expr, keys) ==
    Execute(id,
            elemwise(workgroup_size_x, expr.layout, expr.children, st.layouts,
                     expr_to_string(expr.op, expr.children), keys),
            workgroups(expr.layout, workgroup_size_x),
            execute_inputs(id, expr.children),
            inputs_layout(expr.layout, expr.children, st.layouts))

\* A Movement node lowered as a copying kernel: no `continue`.
lower_movement_copy(st, id, expr) ==
    self_alias([st EXCEPT !.steps =
                   Append(@, execute_step(st, id, expr,
                                          CHOOSE k \in key_orders(expr.children) : TRUE))],
               id, expr)

\* compile, lines 86-91: a Movement node pushes children[0] as its alias and
\* its own layout, and continues with the next node
lower_movement(st, id, expr) ==
    [st EXCEPT !.aliases = Append(@, expr.children[1]),
               !.layouts = Append(@, expr.layout)]

\* compile, lines 66-113 for an elementwise node: the Execute step, then the
\* Deallocate steps, then the self alias
lower_elemwise(st, id, expr, lu, keys) ==
    IF ~expr_ok(expr.op, expr.children) THEN [st EXCEPT !.ok = FALSE]
    ELSE self_alias([st EXCEPT !.steps = Append(@, execute_step(st, id, expr, keys))
                                          \o dealloc_steps(expr.children, lu, id)],
                    id, expr)

\* One iteration of the loop of compile (lines 63-114) for node id.
\* st = [steps, layouts, aliases, ok]; ok = FALSE after a panic.  keys is
\* the key order of the HashMap built for this node, if it builds one.
compile_node(st, g, lu, id, keys) ==
    LET expr == At(g.exprs, id)
    IN  CASE expr.kind = "Input" -> lower_input(st, id, expr)
          [] expr.kind = "Const" -> lower_const(st, id, expr)
          [] expr.op.family = "Reduce" -> lower_reduce(st, id, expr)
          [] expr.op.family = "Movement" -> lower_movement(st, id, expr)
          [] OTHER -> lower_elemwise(st, id, expr, lu, keys)

\* The loop of compile over the nodes 0..k-1, in id order.  ord gives, for
\* every node, the key order of its HashMap.
RECURSIVE compile_loop(_, _, _, _)
compile_loop(g, lu, k, ord) ==
    IF k = 0 THEN [steps |-> <<>>, layouts |-> <<>>, aliases |-> <<>>, ok |-> TRUE]
    ELSE LET st == compile_loop(g, lu, k - 1, ord)
         IN  IF st.ok THEN compile_node(st, g, lu, k - 1, ord[k]) ELSE st

\* The key orders one compile of g can meet: one per node, <<>> for a node
\* that builds no HashMap.
RECURSIVE KeyOrdersUpTo(_, _)
KeyOrdersUpTo(g, k) ==
    IF k = 0 THEN {<<>>}
    ELSE LET expr == g.exprs[k]
             here == IF expr.kind = "Op" /\ expr.op.family = "Elemwise"
                     THEN key_orders(expr.children) ELSE {<<>>}
         IN  {Append(o, h) : o \in KeyOrdersUpTo(g, k - 1), h \in here}

KeyOrders(g) == KeyOrdersUpTo(g, Len(g.exprs))

\* compile, lines 119-124: outputs.iter().rev().map(|id| layouts.remove(id.0)),
\* collected in the order of the iteration.  r = [layouts, out, ok].
RECURSIVE remove_layouts(_, _)
remove_layouts(ids, layouts) ==
    IF ids = <<>> THEN [layouts |-> layouts, out |-> <<>>, ok |-> TRUE]
    ELSE IF Head(ids) >= Len(layouts)
         THEN [layouts |-> layouts, out |-> <<>>, ok |-> FALSE]
         ELSE LET r == remove_layouts(Tail(ids), RemoveAt(layouts, Head(ids)))
              IN  [r EXCEPT !.out = <<At(layouts, Head(ids))>> \o @]

output_layouts(outputs, layouts) == remove_layouts(Reverse(outputs), layouts)

\* compile, line 125: outputs.iter().map(|id| aliases[id.0])
plan_outputs(outputs, aliases) == [i \in 1..Len(outputs) |-> At(aliases, outputs[i])]

\* WgpuCompiler::compile: [ok, plan, aliases, layouts]
compile(g, ord) ==
    LET st == compile_loop(g, last_usages(g), Len(g.exprs), ord)
        ol == output_layouts(g.outputs, st.layouts)
    IN  IF st.ok /\ ol.ok
        THEN [ok |-> TRUE,
              plan |-> [inputs |-> g.inputs,
                        steps |-> st.steps,
                        output_layouts |-> ol.out,
                        outputs |-> plan_outputs(g.outputs, st.aliases)]]
        ELSE [ok |-> FALSE, plan |-> NoPlan]

\* The aliases table of compile when its loop ends; no key order enters it.
Aliases(g) ==
    compile_loop(g, last_usages(g), Len(g.exprs), CHOOSE o \in KeyOrders(g) : TRUE).aliases

(* ------------------------- wgpu/runner.rs ----------------------------- *)

\* WgpuRunner::preprocess: an Execute step keeps output, workgroups and
\* inputs, and gets output_size = inputs_layout[0].0.
concrete_step(step) ==
    IF step.kind = "Execute"
    THEN [kind |-> "Execute", output |-> step.output,
          output_size |-> step.inputs_layout[1][1],
          workgroups |-> step.workgroups, inputs |-> step.inputs]
    ELSE step

preprocess(p) == [p EXCEPT !.steps = [i \in 1..Len(p.steps) |-> concrete_step(p.steps[i])]]

\* WgpuRunner::allocate / track
allocate(bufs, id, tensor) ==
    [k \in (DOMAIN bufs) \cup {id} |->
        IF k = id THEN [data |-> tensor.data, size |-> size(tensor.layout)]
        ELSE bufs[k]]

\* WgpuRunner::deallocate: HashMap::remove, a no-op on a missing key
deallocate(bufs, id) == [k \in (DOMAIN bufs) \ {id} |-> bufs[k]]

\* WgpuRunner::create_output_buffer
create_output_buffer(bufs, id, sz) ==
    [k \in (DOMAIN bufs) \cup {id} |->
        IF k = id THEN [data |-> [src |-> "uninit", id |-> id, args |-> <<>>],
                        size |-> sz]
        ELSE bufs[k]]

\* WgpuRunner::execute_pipeline looks every id up with self.buffers[&id],
\* which panics on a missing key.
bound_ok(bufs, ids) == \A i \in 1..Len(ids) : ids[i] \in DOMAIN bufs

\* The dispatched kernel writes the buffer bound first from the others.
execute_pipeline(bufs, ids) ==
    [bufs EXCEPT ![ids[1]].data =
        [src |-> "exec", id |-> ids[1], args |-> Tail(ids)]]

\* WgpuRunner::retrieve
retrieve(bufs, id, layout) == [data |-> bufs[id].data, layout |-> layout]

\* A zip that walks plan.outputs from its end.
output_pair_reversed(p, i) ==
    [id |-> p.outputs[Len(p.outputs) + 1 - i], layout |-> p.output_layouts[i]]

\* run, lines 337-339: plan.outputs zipped with plan.output_layouts; the
\* i-th pair (1-based), and the number of pairs
output_pair(p, i) == [id |-> p.outputs[i], layout |-> p.output_layouts[i]]

output_pairs(p) ==
    IF Len(p.outputs) <= Len(p.output_layouts)
    THEN Len(p.outputs) ELSE Len(p.output_layouts)

\* The k-th tensor handed to run (0-based): the k-th declared input's layout.
InputTensor(k) ==
    [data |-> [src |-> "input", id |-> k, args |-> <<>>],
     layout |-> At(graph.exprs, At(graph.inputs, k)).layout]

\* A binding that walks plan.inputs from its end.
RECURSIVE allocate_inputs_reversed(_, _, _)
allocate_inputs_reversed(bufs, ids, k) ==
    IF k = Len(ids) THEN bufs
    ELSE allocate_inputs_reversed(
             allocate(bufs, At(ids, Len(ids) - 1 - k), InputTensor(k)), ids, k + 1)

\* run, lines 305-307: the k-th tensor is allocated under plan.inputs[k].
RECURSIVE allocate_inputs(_, _, _)
allocate_inputs(bufs, ids, k) ==
    IF k = Len(ids) THEN bufs
    ELSE allocate_inputs(allocate(bufs, At(ids, k), InputTensor(k)), ids, k + 1)

(* ------------------------------ state --------------------------------- *)

\* No tensor.rs computation, no device activity.
NoCalc == [stage |-> "none"]
NoGpu == [host |-> "none"]

\* Nothing built yet.
ProgramInit ==
    /\ graph = EmptyGraph
    /\ pc = "build"
    /\ plan = NoPlan
    /\ runnable = NoPlan
    /\ buffers = <<>>
    /\ ip = 0
    /\ results = <<>>

program == <<graph, pc, plan, runnable, buffers, ip, results>>

Init ==
    /\ ProgramInit
    /\ calc = NoCalc
    /\ gpu = NoGpu

NodeCount == Len(graph.exprs)

\* The construction calls made so far (one per node and per output).
Calls == NodeCount + Len(graph.outputs)

CanAddNode == pc = "build" /\ NodeCount < MaxNodes /\ Calls < MaxCalls

\* Graph::add_input
AddInput ==
    /\ CanAddNode
    /\ \E layout \in InputLayouts : graph' = add_input(graph, layout)
    /\ UNCHANGED <<pc, plan, runnable, buffers, ip, results, calc, gpu>>

\* Graph::add_constant
AddConst ==
    /\ CanAddNode
    /\ \E tensor \in ConstTensors :
         graph' = [graph EXCEPT
            !.exprs = Append(@, NewExpr([kind |-> "Const", op |-> NoOp,
                                         children |-> <<>>, tensor |-> tensor],
                                        tensor.layout))]
    /\ UNCHANGED <<pc, plan, runnable, buffers, ip, results, calc, gpu>>

\* The children slices tried on a graph of n nodes: every id that exists
\* and the first id that does not.
ChildSeqs(op, n) == UNION {[1..k -> 0..n] : k \in ChildCounts(op)}

\* Graph::add_op = add_expr(ExprBody::Op): the usages loop, then
\* add_expr_untracked (layout inference indexes children[0]).
AddOp ==
    /\ CanAddNode
    /\ \E op \in Ops : \E children \in ChildSeqs(op, NodeCount) :
         LET r == add_op(graph, op, children)
         IN  /\ graph' = r.graph
             /\ pc' = IF r.ok THEN pc ELSE "panic_add_op"
    /\ UNCHANGED <<plan, runnable, buffers, ip, results, calc, gpu>>

\* Graph::add_output
AddOutput ==
    /\ pc = "build"
    /\ Calls < MaxCalls
    /\ \E expr \in 0..(MaxNodes - 1) : graph' = add_output(graph, expr)
    /\ UNCHANGED <<pc, plan, runnable, buffers, ip, results, calc, gpu>>

\* WgpuCompiler::compile(graph)
Compile ==
    /\ pc = "build"
    /\ \E ord \in KeyOrders(graph) :
          LET r == compile(graph, ord)
          IN  IF r.ok THEN plan' = r.plan /\ pc' = "compiled"
              ELSE plan' = plan /\ pc' = "panic_compile"
    /\ UNCHANGED <<graph, runnable, buffers, ip, results, calc, gpu>>

\* WgpuRunner::preprocess(plan)
Preprocess ==
    /\ pc = "compiled"
    /\ runnable' = preprocess(plan)
    /\ pc' = "ready"
    /\ UNCHANGED <<graph, plan, buffers, ip, results, calc, gpu>>

\* WgpuRunner::run, lines 305-307: one tensor per declared input is
\* allocated under plan.inputs[index].
RunStart ==
    /\ pc = "ready"
    /\ buffers' = allocate_inputs(buffers, runnable.inputs, 0)
    /\ pc' = "run"
    /\ UNCHANGED <<graph, plan, runnable, ip, results, calc, gpu>>

\* WgpuRunner::run, lines 309-335: the next step of the plan.
RunStep ==
    /\ pc = "run"
    /\ ip < Len(runnable.steps)
    /\ LET step == runnable.steps[ip + 1]
       IN  CASE step.kind = "Allocate" ->
                  /\ buffers' = allocate(buffers, step.id, step.tensor)
                  /\ ip' = ip + 1 /\ pc' = pc
             [] step.kind = "Deallocate" ->
                  /\ buffers' = deallocate(buffers, step.id)
                  /\ ip' = ip + 1 /\ pc' = pc
             [] OTHER ->
                  LET b == create_output_buffer(buffers, step.output, step.output_size)
                  IN  IF bound_ok(b, step.inputs)
                      THEN /\ buffers' = execute_pipeline(b, step.inputs)
                           /\ ip' = ip + 1 /\ pc' = pc
                      ELSE /\ buffers' = b
                           /\ ip' = ip /\ pc' = "panic_run"
    /\ UNCHANGED <<graph, plan, runnable, results, calc, gpu>>

\* WgpuRunner::run, lines 337-341: the steps are done; the next pair of
\* plan.outputs zipped with plan.output_layouts is retrieved.
Retrieve ==
    /\ pc = "run"
    /\ ip = Len(runnable.steps)
    /\ LET i == Len(results) + 1
           pair == output_pair(runnable, i)
       IN  IF i > output_pairs(runnable)
           THEN pc' = "done" /\ results' = results
           ELSE IF pair.id \in DOMAIN buffers
                THEN /\ results' = Append(results,
                            retrieve(buffers, pair.id, pair.layout))
                     /\ pc' = pc
                ELSE pc' = "panic_run" /\ results' = results
    /\ UNCHANGED <<graph, plan, runnable, buffers, ip, calc, gpu>>

Next ==
    \/ AddInput
    \/ AddConst
    \/ AddOp
    \/ AddOutput
    \/ Compile
    \/ Preprocess
    \/ RunStart
    \/ RunStep
    \/ Retrieve

Spec == Init /\ [][Next]_vars

(* ------------------- tensor.rs: shapes and tensors -------------------- *)

\* The dims arrays a Shape is built from.
DimSeqs == UNION {[1..k -> 1..MaxDim] : k \in 0..MaxRank}

TensorInit ==
    /\ ProgramInit
    /\ gpu = NoGpu
    /\ calc \in {[stage |-> "dims", dims |-> d] : d \in DimSeqs}

\* Layout::from(dims), and a tensor of that layout with one value per
\* element.  hist lists the layouts the tensor has had.
LayoutFrom ==
    /\ calc.stage = "dims"
    /\ LET layout == contiguous(calc.dims)
       IN  calc' = [stage  |-> "layout",
                    dims   |-> calc.dims,
                    tensor |-> from_parts([i \in 1..elements(layout) |-> 0], layout),
                    hist   |-> <<layout>>]
    /\ UNCHANGED <<program, gpu>>

\* A Transpose of the layout (rank 2 or more), at most twice in a row.
Transpose ==
    /\ calc.stage = "layout"
    /\ Len(calc.hist) <= 2
    /\ Len(calc.tensor.layout.dims) >= 2
    /\ LET layout == transpose(calc.tensor.layout)
       IN  calc' = [calc EXCEPT !.tensor.layout = layout, !.hist = Append(@, layout)]
    /\ UNCHANGED <<program, gpu>>

\* Layout::reshape and Tensor::reshape to the shape of dims target.  Both
\* return Self: there is no outcome other than the reshaped value.
Reshape ==
    /\ calc.stage = "layout"
    /\ \E target \in DimSeqs :
          calc' = [stage   |-> "reshaped",
                   dims    |-> calc.dims,
                   before  |-> calc.tensor,
                   layout  |-> reshape(calc.tensor.layout, contiguous(target)),
                   tensor  |-> tensor_reshape(calc.tensor, contiguous(target)),
                   outcome |-> "Ok"]
    /\ UNCHANGED <<program, gpu>>

\* The layout inference of a Reduce over the set D of dimension indices
\* of the layout.
Reduce ==
    /\ calc.stage = "layout"
    /\ \E D \in SUBSET (0..(Len(calc.tensor.layout.dims) - 1)) :
          calc' = [stage  |-> "reduced",
                   dims   |-> calc.dims,
                   before |-> calc.tensor.layout,
                   D      |-> D,
                   layout |-> reduce_layout(calc.tensor.layout, D)]
    /\ UNCHANGED <<program, gpu>>

TensorNext ==
    \/ LayoutFrom
    \/ Transpose
    \/ Reshape
    \/ Reduce

SpecTensor == TensorInit /\ [][TensorNext]_vars

(* -------------- graphs of inputs, unary ops and views ----------------- *)

\* Largest number of nodes of a graph of views.
MaxViewNodes == 4

\* The unary ops of a graph of views: an elementwise op and a Movement op.
ViewOps == {OpSin, OpSqueeze}

\* Graph::add_input
ViewAddInput ==
    /\ pc = "build"
    /\ NodeCount < MaxViewNodes
    /\ \E layout \in InputLayouts : graph' = add_input(graph, layout)
    /\ UNCHANGED <<pc, plan, runnable, buffers, ip, results, calc, gpu>>

\* Graph::add_op with one child: an id that exists, or the first that
\* does not.
ViewAddOp ==
    /\ pc = "build"
    /\ NodeCount < MaxViewNodes
    /\ \E op \in ViewOps : \E child \in 0..NodeCount :
         LET r == add_op(graph, op, <<child>>)
         IN  /\ graph' = r.graph
             /\ pc' = IF r.ok THEN pc ELSE "panic_add_op"
    /\ UNCHANGED <<plan, runnable, buffers, ip, results, calc, gpu>>

ViewNext ==
    \/ ViewAddInput
    \/ ViewAddOp
    \/ Compile

SpecViews == Init /\ [][ViewNext]_vars

(* ------------------- compiler.rs: the dispatch shape ------------------ *)

\* Low and middle limbs of the element counts tried, and the widths.
LowLimbs == {0, 1, 2, 255, 256, 257, 511, 512, 65535}
MidLimbs == {0, 1, 65535}
Widths == {64, workgroup_size_x}

DispatchInit ==
    /\ ProgramInit
    /\ gpu = NoGpu
    /\ calc \in {[stage |-> "elements", E |-> Wide(e2, e1, e0), wg |-> w] :
                    e2 \in 0..MaxHigh, e1 \in MidLimbs, e0 \in LowLimbs, w \in Widths}

\* compile, lines 93-97, for an output of calc.E elements
Dispatch ==
    /\ calc.stage = "elements"
    /\ calc' = [stage |-> "dispatched", E |-> calc.E, wg |-> calc.wg,
                workgroups |-> wide_workgroups(calc.E, calc.wg)]
    /\ UNCHANGED <<program, gpu>>

DispatchNext == Dispatch

SpecDispatch == DispatchInit /\ [][DispatchNext]_vars

(* --------------- runner.rs: the device queue and read-back ------------ *)

\* The buffers compute passes write and retrieve reads.
BufferIds == {0, 1}

\* The host is in run; nothing is submitted.  queue lists the submissions
\* in order, done counts those the device has completed, mem[id] counts
\* the compute passes that have written buffer id on the device, staging
\* is what the staging buffer holds (-1 before the copy has run), copy is
\* copy_submission and src the buffer being retrieved.
DeviceInit ==
    /\ ProgramInit
    /\ calc = NoCalc
    /\ gpu = [host    |-> "run",
              queue   |-> <<>>,
              done    |-> 0,
              mem     |-> [id \in BufferIds |-> 0],
              staging |-> -1,
              copy    |-> 0,
              src     |-> 0,
              reads   |-> <<>>]

\* start_compute_pass: a compute pass writing buffer id is submitted; the
\* host goes on without waiting (execute_pipeline drops the index).
StartComputePass ==
    /\ gpu.host = "run"
    /\ Len(gpu.queue) < MaxSubmissions
    /\ \E id \in BufferIds :
          gpu' = [gpu EXCEPT !.queue = Append(@, [kind |-> "compute", id |-> id])]
    /\ UNCHANGED <<program, calc>>

\* retrieve, lines 102-113: a fresh staging buffer, the copy of buffer id
\* into it submitted, map_async requested.
RetrieveSubmit ==
    /\ gpu.host = "run"
    /\ Len(gpu.queue) < MaxSubmissions
    /\ \E id \in BufferIds :
          gpu' = [gpu EXCEPT !.queue = Append(@, [kind |-> "copy", id |-> id]),
                             !.copy = Len(gpu.queue) + 1,
                             !.src = id,
                             !.staging = -1,
                             !.host = "submitted"]
    /\ UNCHANGED <<program, calc>>

\* A poll that returns at once (Maintain::Poll).
poll_no_wait(g) == TRUE

\* retrieve, lines 115-116: poll(Maintain::WaitForSubmissionIndex(
\* copy_submission)) returns when the device has completed that submission.
poll_returns(g) == g.done >= g.copy

RetrievePoll ==
    /\ gpu.host = "submitted"
    /\ poll_returns(gpu)
    /\ gpu' = [gpu EXCEPT !.host = "polled"]
    /\ UNCHANGED <<program, calc>>

\* retrieve, lines 118-127: the mapped range is read into the tensor.
RetrieveRead ==
    /\ gpu.host = "polled"
    /\ gpu' = [gpu EXCEPT !.reads = Append(@, [src |-> gpu.src, copy |-> gpu.copy,
                                              done |-> gpu.done,
                                              data |-> gpu.staging]),
                          !.host = "run"]
    /\ UNCHANGED <<program, calc>>

\* The device completes its oldest pending submission (the queue is in
\* order): a compute pass writes its buffer, a copy fills the staging
\* buffer with what the source buffer holds then.
DeviceComplete ==
    /\ gpu.host # "none"
    /\ gpu.done < Len(gpu.queue)
    /\ LET work == gpu.queue[gpu.done + 1]
       IN  gpu' = [gpu EXCEPT
                     !.done = @ + 1,
                     !.mem = IF work.kind = "compute"
                             THEN [@ EXCEPT ![work.id] = @ + 1] ELSE @,
                     !.staging = IF work.kind = "copy" /\ gpu.done + 1 = gpu.copy
                                 THEN gpu.mem[work.id] ELSE @]
    /\ UNCHANGED <<program, calc>>

DeviceNext ==
    \/ StartComputePass
    \/ RetrieveSubmit
    \/ RetrievePoll
    \/ RetrieveRead
    \/ DeviceComplete

SpecDevice == DeviceInit /\ [][DeviceNext]_vars

(* ======================= properties of the model ====================== *)

Ids == 0..(NodeCount - 1)

Node(n) == At(graph.exprs, n)

IsOp(n) == Node(n).kind = "Op"

IsMovement(n) == IsOp(n) /\ Node(n).op.family = "Movement"

\* The nodes that own storage: inputs, constants, elementwise and reduce ops.
OwnsStorage(n) == n \in Ids /\ ~IsMovement(n)

\* The op nodes that list n as a direct child.
Consumers(n) == {u \in Ids : IsOp(u) /\ n \in Range(Node(u).children)}

\* The positions of the steps of a plan that satisfy a test.
StepsWhere(steps, Test(_)) == {i \in 1..Len(steps) : Test(steps[i])}

DeallocatesOf(steps, n) ==
    StepsWhere(steps, LAMBDA st : st.kind = "Deallocate" /\ st.id = n)

ProducesOf(steps, n) ==
    StepsWhere(steps, LAMBDA st : \/ st.kind = "Allocate" /\ st.id = n
                                  \/ st.kind = "Execute" /\ st.output = n)

ExecutesOf(steps, n) ==
    StepsWhere(steps, LAMBDA st : st.kind = "Execute" /\ st.output = n)

\* The arity the specification gives each op, and a graph whose ops all
\* have it and whose outputs all exist.
Arity(op) == IF op.name \in {"Add", "Mul"} THEN 2 ELSE 1

WellFormed ==
    /\ \A n \in Ids : IsOp(n) => Len(Node(n).children) = Arity(Node(n).op)
    /\ \A i \in 1..Len(graph.outputs) : graph.outputs[i] \in Ids

\* run has executed every step of the plan and is about to retrieve.
AtRetrieval == pc = "run" /\ ip = Len(runnable.steps)

(* C1: when run reaches the retrieval of plan.outputs, the buffer of every *)
(* declared output that is also a child of a later op is still in the       *)
(* runner's buffer map.                                                      *)
C1_OutputBuffersKept ==
    AtRetrieval /\ WellFormed =>
        \A i \in 1..Len(graph.outputs) :
            LET n == graph.outputs[i]
            IN  OwnsStorage(n) /\ Consumers(n) # {} =>
                    runnable.outputs[i] \in DOMAIN buffers

(* C2: in every emitted plan each node that owns storage and is not a      *)
(* declared output has exactly one Deallocate step.                         *)
C2_ExactlyOneDeallocate ==
    pc = "compiled" /\ WellFormed =>
        \A n \in Ids :
            OwnsStorage(n) /\ n \notin Range(graph.outputs) =>
                Cardinality(DeallocatesOf(plan.steps, n)) = 1

(* C3: in every emitted plan each Deallocate(n) step comes strictly after  *)
(* the Allocate or Execute step that produced n and strictly after the     *)
(* Execute step of every op node that lists n as a direct child, and each  *)
(* of those steps is in the plan.                                           *)
C3_DeallocateAfterUses ==
    pc = "compiled" =>
        \A j \in 1..Len(plan.steps) :
            plan.steps[j].kind = "Deallocate" =>
                LET n == plan.steps[j].id
                IN  /\ n \in Ids
                    /\ \A i \in ProducesOf(plan.steps, n) : i < j
                    /\ Node(n).kind = "Const" \/ (IsOp(n) /\ ~IsMovement(n)) =>
                           ProducesOf(plan.steps, n) # {}
                    /\ \A u \in Consumers(n) :
                           /\ \A i \in ExecutesOf(plan.steps, u) : i < j
                           /\ ~IsMovement(u) => ExecutesOf(plan.steps, u) # {}

\* A constant read by two different ops has been compiled and deallocated.
C3_Witness ==
    /\ pc = "compiled"
    /\ \E n \in Ids :
          /\ Node(n).kind = "Const"
          /\ Cardinality(Consumers(n)) >= 2
          /\ DeallocatesOf(plan.steps, n) # {}

(* C4: when a plan compiled from a well-formed graph runs, every id an     *)
(* Execute step binds besides its own output has a buffer in the runner's  *)
(* map at the moment the step executes.                                     *)
C4_BoundBuffersPresent ==
    pc = "run" /\ ip < Len(runnable.steps) /\ WellFormed =>
        LET step == runnable.steps[ip + 1]
        IN  step.kind = "Execute" =>
                \A k \in 2..Len(step.inputs) : step.inputs[k] \in DOMAIN buffers

(* C5: compile returns one output layout per declared output, and the i-th *)
(* output layout is the layout of the i-th declared output node.           *)
C5_OutputLayoutsInOrder ==
    pc = "compiled" =>
        /\ Len(plan.output_layouts) = Len(graph.outputs)
        /\ \A i \in 1..Len(graph.outputs) :
              plan.output_layouts[i] = Node(graph.outputs[i]).layout

(* C6: after compile the alias of every node, and so every id of           *)
(* plan.outputs, is a node that owns storage; the alias of a Movement node *)
(* is the alias of its child.                                               *)
C6_AliasesOwnStorage ==
    pc = "compiled" /\ WellFormed =>
        /\ \A n \in Ids :
              /\ OwnsStorage(At(Aliases(graph), n))
              /\ IsMovement(n) =>
                    At(Aliases(graph), n) = At(Aliases(graph), Node(n).children[1])
        /\ \A i \in 1..Len(plan.outputs) : OwnsStorage(plan.outputs[i])

(* C7: after any sequence of construction calls that returned, the last    *)
(* usage recorded for a node is the largest id among the op nodes that     *)
(* list it as a direct child, or its own id when no op lists it.           *)
C7_LastUsageIsMaxConsumer ==
    pc # "panic_add_op" =>
        \A n \in Ids :
            At(last_usages(graph), n) =
                IF Consumers(n) = {} THEN n ELSE SetMax(Consumers(n))

\* A node with two different consumers next to a node with none.
C7_Witness ==
    /\ pc = "build"
    /\ \E n \in Ids : Cardinality(Consumers(n)) >= 2
    /\ \E n \in Ids : Consumers(n) = {}

(* C8: every op node's id is strictly greater than the id of each of its   *)
(* children.                                                                *)
C8_ChildrenBeforeParent ==
    \A n \in Ids :
        IsOp(n) => \A i \in 1..Len(Node(n).children) : Node(n).children[i] < n

\* An op whose child is the node created just before it, and an add_op
\* call with a child that does not exist yet has panicked.
C8_Witness ==
    \/ /\ pc = "panic_add_op" /\ NodeCount >= 1
    \/ /\ pc = "build"
       /\ \E n \in Ids : IsOp(n) /\ (n - 1) \in Range(Node(n).children)
                                 /\ Len(Node(n).children) = 2

(* C9: compile emits no Execute step for a Movement node: the Execute      *)
(* steps of a plan are one per elementwise or reduce node, and the plan of *)
(* one Movement op over one Input or Const has no Execute step and aliases *)
(* the Movement node to its child's alias.                                  *)
C9_MovementIsZeroCopy ==
    pc = "compiled" =>
        /\ \A n \in Ids :
              Cardinality(ExecutesOf(plan.steps, n)) =
                  IF IsOp(n) /\ ~IsMovement(n) THEN 1 ELSE 0
        /\ Cardinality(StepsWhere(plan.steps, LAMBDA st : st.kind = "Execute")) =
              Cardinality({n \in Ids : IsOp(n) /\ ~IsMovement(n)})
        /\ (NodeCount = 2 /\ ~IsOp(0) /\ IsMovement(1)) =>
              /\ StepsWhere(plan.steps, LAMBDA st : st.kind = "Execute") = {}
              /\ At(Aliases(graph), 1) = At(Aliases(graph), 0)

\* The graph of one Movement op over one Input or Const has been compiled.
C9_Witness ==
    /\ pc = "compiled"
    /\ NodeCount = 2 /\ ~IsOp(0) /\ IsMovement(1)
    /\ Node(1).children = <<0>>

(* C10: when run returns, every step of the plan has been executed, there  *)
(* is one tensor per declared output, and the i-th tensor holds the data   *)
(* of the buffer of plan.outputs[i] with the layout plan.output_layouts[i]. *)
C10_RunReturnsOutputsInOrder ==
    pc = "done" =>
        /\ ip = Len(plan.steps)
        /\ Len(results) = Len(graph.outputs)
        /\ Len(results) = Len(plan.outputs)
        /\ \A i \in 1..Len(results) :
              /\ plan.outputs[i] \in DOMAIN buffers
              /\ results[i].data = buffers[plan.outputs[i]].data
              /\ results[i].layout = plan.output_layouts[i]

\* run has returned two tensors read from two different buffers.
C10_Witness ==
    /\ pc = "done"
    /\ Len(results) = 2
    /\ plan.outputs[1] # plan.outputs[2]
    /\ results[1].data # results[2].data

(* C11: compiling a graph is deterministic: whatever order the HashMap of  *)
(* a node's children yields its keys in, kernel generation receives the    *)
(* same ordered list of inputs, and so two compiles of the same graph      *)
(* return equal plans.                                                      *)
C11_CompileDeterministic ==
    pc = "build" =>
        \A o1, o2 \in KeyOrders(graph) : compile(graph, o1) = compile(graph, o2)

(* C12: in every Execute step of a plan, the bound id list (the output,    *)
(* then each child in children order) has the number and the order of the  *)
(* buffers the step's kernel source declares, also for an op whose two     *)
(* children are the same node.                                              *)
C12_BindingsMatchKernel ==
    \A i \in StepsWhere(plan.steps, LAMBDA st : st.kind = "Execute") :
        plan.steps[i].inputs =
            kernel_bindings(plan.steps[i].output, plan.steps[i].source)

(* C13: the dispatch shape of an Execute step is <<ceil(E / W), 1, 1>> for *)
(* every output element count E, also for E at or above 2^32.              *)
C13_DispatchCoversEveryElement ==
    calc.stage = "dispatched" =>
        calc.workgroups = <<wide_div_ceil(calc.E, calc.wg), 1, 1>>

\* Below 2^31 the dispatch shape on limbs is the one compile is modelled
\* with on integers.
DispatchOnLimbsAgrees ==
    (calc.stage = "dispatched" /\ calc.E[2] = 0 /\ calc.E[3] < HalfWord \div 2) =>
        calc.workgroups =
            <<div_ceil(as_u32(calc.E[3] * HalfWord + calc.E[4]), calc.wg), 1, 1>>

(* C14: every Shape built by the contiguous construction, rank 0 included, *)
(* has as many strides as dims; the scalar layout has no dims, no strides  *)
(* and one element.                                                         *)
C14_StridesPairedWithDims ==
    (calc.stage = "layout" /\ Len(calc.hist) = 1) =>
        LET layout == calc.tensor.layout
        IN  /\ Len(layout.strides) = Len(layout.dims)
            /\ calc.dims = <<>> =>
                  layout.dims = <<>> /\ layout.strides = <<>> /\ elements(layout) = 1

(* C15: in a contiguous shape of rank 1 or more, the stride of every       *)
(* dimension is the product of the sizes of the dimensions after it (the   *)
(* stride of dimension i is the stride of dimension i+1 times its size),   *)
(* and the innermost stride is 1.                                           *)
C15_ContiguousStrides ==
    (calc.stage = "layout" /\ Len(calc.hist) = 1 /\ Len(calc.dims) >= 1) =>
        LET layout == calc.tensor.layout
            n      == Len(calc.dims)
        IN  /\ layout.dims = calc.dims
            /\ Len(layout.strides) = n
            /\ layout.strides[n] = 1
            /\ \A i \in 1..(n - 1) :
                  /\ layout.strides[i] = layout.strides[i + 1] * calc.dims[i + 1]
                  /\ layout.strides[i] = Product(SubSeq(calc.dims, i + 1, n))

\* A contiguous shape of rank 3 whose dimensions all differ has been built.
C15_Witness ==
    /\ calc.stage = "layout" /\ Len(calc.hist) = 1
    /\ calc.dims = <<2, 3, 1>>
    /\ calc.tensor.layout.strides = <<3, 1, 1>>

(* C16: an add_op call with a child id that does not exist, or with the    *)
(* wrong number of children for its op, is rejected: no op node of the     *)
(* graph has a missing child or a wrong arity, and a rejected call leaves  *)
(* no usage of the id it would have created.                               *)
C16_BadAddOpRejectedUnchanged ==
    /\ \A n \in Ids :
          IsOp(n) => /\ Len(Node(n).children) = Arity(Node(n).op)
                     /\ \A c \in Range(Node(n).children) : c \in Ids
    /\ pc = "panic_add_op" =>
          \A n \in Ids : NodeCount \notin DOMAIN Node(n).usages

(* C17: a reshape to a shape with a different element count is rejected    *)
(* with IncompatibleReshape; it yields no layout and no tensor whose        *)
(* element count differs from the number of values held.                    *)
C17_ReshapeKeepsElements ==
    calc.stage = "reshaped" =>
        \/ calc.outcome = "IncompatibleReshape"
        \/ /\ elements(calc.layout) = elements(calc.before.layout)
           /\ elements(calc.tensor.layout) = Len(calc.tensor.data)

(* C18: compile of a graph that contains a Reduce op fails as a whole and  *)
(* returns no plan, whatever steps the nodes before it produced.           *)
C18_ReduceFailsCompile ==
    (\E n \in Ids : IsOp(n) /\ Node(n).op.family = "Reduce") =>
        /\ pc \in {"build", "panic_add_op", "panic_compile"}
        /\ plan = NoPlan

\* compile has failed on a Reduce over a Const, after the Allocate step of
\* the Const was emitted.
C18_Witness ==
    /\ pc = "panic_compile"
    /\ NodeCount = 2
    /\ Node(0).kind = "Const"
    /\ IsOp(1) /\ Node(1).op.family = "Reduce" /\ Node(1).children = <<0>>
    /\ compile_loop(graph, last_usages(graph), 1, <<<<>>, <<>>>>).steps # <<>>

(* C19: the read-back of retrieve returns data only after its copy         *)
(* submission, and every compute pass submitted before it that writes the  *)
(* retrieved buffer, have completed on the device: the host never reads    *)
(* the staging buffer while that work is pending, and what it reads is the *)
(* buffer as written by all those passes.                                   *)
WritesBefore(queue, id, index) ==
    Cardinality({k \in 1..(index - 1) :
                    queue[k].kind = "compute" /\ queue[k].id = id})

C19_ReadBackAfterCompletion ==
    gpu.host # "none" =>
        /\ gpu.host = "polled" =>
              /\ gpu.done >= gpu.copy
              /\ gpu.staging = WritesBefore(gpu.queue, gpu.src, gpu.copy)
        /\ \A i \in 1..Len(gpu.reads) :
              LET r == gpu.reads[i]
              IN  /\ r.done >= r.copy
                  /\ r.data = WritesBefore(gpu.queue, r.src, r.copy)

\* retrieve has returned the data of a buffer that one compute pass wrote,
\* its copy having been submitted behind two compute passes.
C19_Witness ==
    /\ gpu.host = "run"
    /\ Len(gpu.reads) = 1
    /\ gpu.reads[1].copy = 3
    /\ gpu.reads[1].data = 1

(* C20: for every layout of rank 2 or more, two Transposes in a row give   *)
(* back the dims and the strides the layout had.                            *)
C20_TransposeTwiceRestores ==
    calc.stage = "layout" =>
        \A k \in 1..(Len(calc.hist) - 2) : calc.hist[k + 2] = calc.hist[k]

\* A layout whose two innermost dimensions differ has been transposed
\* twice, and the first Transpose changed it.
C20_Witness ==
    /\ calc.stage = "layout"
    /\ Len(calc.hist) = 3
    /\ calc.dims = <<3, 1, 2>>
    /\ calc.hist[2] # calc.hist[1]
    /\ calc.tensor.layout = calc.hist[1]

(* C21: the layout inferred for a Reduce over a set D of dimension indices *)
(* has the rank of its input, size 1 at every index in D and the input's   *)
(* size at every index not in D.                                            *)
C21_ReduceSetsDimsToOne ==
    calc.stage = "reduced" =>
        /\ Len(calc.layout.dims) = Len(calc.before.dims)
        /\ \A i \in 0..(Len(calc.before.dims) - 1) :
              At(calc.layout.dims, i) = IF i \in calc.D THEN 1
                                        ELSE At(calc.before.dims, i)

\* A rank 3 layout has been reduced over its first and last dimensions,
\* both larger than 1.
C21_Witness ==
    /\ calc.stage = "reduced"
    /\ calc.before.dims = <<2, 3, 2>>
    /\ calc.D = {0, 2}
    /\ calc.layout.dims = <<1, 3, 1>>

\* The node whose storage node n reads: n itself, or for a Movement node
\* the storage of the node it views, through any chain of Movement ops.
RECURSIVE StorageOf(_)
StorageOf(n) ==
    IF IsMovement(n) /\ Node(n).children # <<>> /\ Node(n).children[1] < n
    THEN StorageOf(Node(n).children[1]) ELSE n

(* C22: in every emitted plan no Execute step reads storage that an       *)
(* earlier Deallocate step of the plan has freed, an operand that is a     *)
(* Movement view counting as a read of the storage it aliases.             *)
C22_NoReadAfterDeallocate ==
    pc = "compiled" =>
        \A n \in Ids : \A i \in ExecutesOf(plan.steps, n) :
            \A c \in Range(Node(n).children) :
                \A j \in DeallocatesOf(plan.steps, StorageOf(c)) : i < j

\* The number of steps compile has emitted when it starts on node n.
StepsBefore(n) ==
    Len(compile_loop(graph, last_usages(graph), n,
                     CHOOSE o \in KeyOrders(graph) : TRUE).steps)

\* The place in the plan of what compile emits for op node n: its Execute
\* step, or for a Movement node (which emits no step) the end of the steps
\* emitted before it.
Anchor(n) == IF IsMovement(n) THEN StepsBefore(n) ELSE StepsBefore(n) + 1

\* Deallocate(c) follows place a with only Deallocate steps in between.
FreedRightAfter(c, a) ==
    \E j \in DeallocatesOf(plan.steps, c) :
        /\ j > a
        /\ \A k \in (a + 1)..(j - 1) : plan.steps[k].kind = "Deallocate"

(* C23: for every op node and every direct child whose recorded last usage *)
(* is that node, the plan has the Deallocate of the child right after what *)
(* compile emits for the node (its Execute step, or its Movement-alias     *)
(* handling), with only other Deallocate steps in between.                 *)
C23_DeallocateRightAfterLastUse ==
    pc = "compiled" =>
        \A n \in Ids : IsOp(n) =>
            \A c \in Range(Node(n).children) :
                At(last_usages(graph), c) = n => FreedRightAfter(c, Anchor(n))

\* The same for the children of elementwise nodes only.
ElemwiseFreesRightAfter ==
    pc = "compiled" =>
        \A n \in Ids : IsOp(n) /\ ~IsMovement(n) =>
            \A c \in Range(Node(n).children) :
                At(last_usages(graph), c) = n => FreedRightAfter(c, Anchor(n))

(* C24: a plan has no Allocate and no Execute step whose target is an      *)
(* Input node, and exactly one Allocate step for each Const node, carrying *)
(* the node's id and tensor; no other node has an Allocate step.           *)
C24_AllocateForConstOnly ==
    pc = "compiled" =>
        \A n \in Ids :
            LET allocs == StepsWhere(plan.steps,
                                     LAMBDA st : st.kind = "Allocate" /\ st.id = n)
            IN  /\ Node(n).kind = "Input" => ProducesOf(plan.steps, n) = {}
                /\ Node(n).kind = "Const" =>
                      /\ Cardinality(allocs) = 1
                      /\ \A i \in allocs : plan.steps[i].tensor = Node(n).tensor
                      /\ ExecutesOf(plan.steps, n) = {}
                /\ Node(n).kind # "Const" => allocs = {}

\* A graph with an Input, a Const and an op reading both has been compiled.
C24_Witness ==
    /\ pc = "compiled"
    /\ NodeCount = 3
    /\ Node(0).kind = "Input" /\ Node(1).kind = "Const"
    /\ IsOp(2) /\ Node(2).children = <<0, 1>>
    /\ ExecutesOf(plan.steps, 2) # {}

\* The node an Allocate or Execute step produces.
Target(step) == IF step.kind = "Allocate" THEN step.id ELSE step.output

(* C25: the Allocate and Execute steps of a plan are in strictly           *)
(* increasing order of their target node id, and the step producing a      *)
(* node's storage comes before the Execute step of every node reading it.  *)
C25_ProducersInIdOrder ==
    pc = "compiled" =>
        LET producers == StepsWhere(plan.steps, LAMBDA st : st.kind # "Deallocate")
        IN  /\ \A i, j \in producers :
                  i < j => Target(plan.steps[i]) < Target(plan.steps[j])
            /\ \A n \in Ids : \A e \in ExecutesOf(plan.steps, n) :
                  \A c \in Range(Node(n).children) :
                      \A p \in ProducesOf(plan.steps, StorageOf(c)) : p < e

\* A Const read by an op whose result a second op reads has been compiled.
C25_Witness ==
    /\ pc = "compiled"
    /\ NodeCount = 3
    /\ Node(0).kind = "Const"
    /\ IsOp(1) /\ 0 \in Range(Node(1).children)
    /\ IsOp(2) /\ 1 \in Range(Node(2).children)
    /\ ExecutesOf(plan.steps, 1) # {} /\ ExecutesOf(plan.steps, 2) # {}

\* The ids of the Input nodes, in increasing id order, which is the
\* order of the add_input calls.
DeclaredInputs == SelectSeq([i \in 1..NodeCount |-> i - 1],
                            LAMBDA n : Node(n).kind = "Input")

\* The tensor run was handed for the k-th declared input (0-based).
Supplied(k) == [src |-> "input", id |-> k, args |-> <<>>]

(* C26: plan.inputs lists the Input nodes in the order add_input declared  *)
(* them, run stores the k-th supplied tensor under plan.inputs[k], and     *)
(* every Execute step that binds an Input node finds the tensor supplied   *)
(* for that input in its buffer.                                            *)
C26_InputsBoundPositionally ==
    /\ pc = "build" => graph.inputs = DeclaredInputs
    /\ pc = "compiled" => plan.inputs = DeclaredInputs
    /\ pc = "ready" => runnable.inputs = plan.inputs
    /\ (pc = "run" /\ ip = 0) =>
          /\ runnable.inputs = DeclaredInputs
          /\ \A k \in 1..Len(runnable.inputs) :
              /\ runnable.inputs[k] \in DOMAIN buffers
              /\ buffers[runnable.inputs[k]].data = Supplied(k - 1)
    /\ (pc = "run" /\ ip < Len(runnable.steps)) =>
          LET step == runnable.steps[ip + 1]
          IN  step.kind = "Execute" =>
                  \A k \in 1..Len(DeclaredInputs) :
                      DeclaredInputs[k] \in Range(Tail(step.inputs)) =>
                          /\ DeclaredInputs[k] \in DOMAIN buffers
                          /\ buffers[DeclaredInputs[k]].data = Supplied(k - 1)

\* run is about to execute an op that reads two inputs, each holding the
\* tensor supplied for it.
C26_Witness ==
    /\ pc = "run" /\ ip < Len(runnable.steps)
    /\ runnable.steps[ip + 1].kind = "Execute"
    /\ runnable.steps[ip + 1].inputs = <<2, 1, 0>>
    /\ DeclaredInputs = <<0, 1>>
    /\ buffers[0].data = Supplied(0) /\ buffers[1].data = Supplied(1)

\* The tables of compile after node k has been processed, for each key
\* order, when compile gets that far.
TablesAfter(k) ==
    {st \in {compile_loop(graph, last_usages(graph), k + 1, ord) :
                ord \in KeyOrders(graph)} : st.ok}

\* The two tables have one entry per processed node, the layout entries
\* are the nodes' own layouts, and kernel generation is handed each
\* child's own layout.
TablesTrackLayouts(st, k) ==
    /\ Len(st.layouts) = k + 1
    /\ Len(st.aliases) = k + 1
    /\ \A i \in 0..k : At(st.layouts, i) = Node(i).layout
    /\ \A j \in StepsWhere(st.steps, LAMBDA step : step.kind = "Execute") :
          \A c \in Range(Node(st.steps[j].output).children) :
              st.steps[j].source.layouts[c] = Node(c).layout

(* C27: during compile, after node k has been processed the layouts table *)
(* and the aliases table hold k+1 entries each, entry i being the layout   *)
(* and the alias of node i: the node itself, or for a Movement node its    *)
(* own post-movement layout and the node whose storage it shares; the      *)
(* layout handed to kernel generation for a child is the child's own.      *)
C27_TablesPerNode ==
    pc = "build" =>
        \A k \in Ids : \A st \in TablesAfter(k) :
            /\ TablesTrackLayouts(st, k)
            /\ \A i \in 0..k : At(st.aliases, i) = StorageOf(i)

\* The lengths and the layout entries alone.
TablesHoldOwnLayouts ==
    pc = "build" =>
        \A k \in Ids : \A st \in TablesAfter(k) : TablesTrackLayouts(st, k)

(* C28: add_output appends its argument to the outputs list and leaves     *)
(* everything else unchanged: the node table with every layout and usage   *)
(* map, and the inputs list; a node marked twice is listed twice.          *)
C28_AddOutputOnlyAppends ==
    [][graph'.outputs # graph.outputs =>
          /\ \E expr \in 0..(MaxNodes - 1) :
                graph'.outputs = Append(graph.outputs, expr)
          /\ graph'.exprs = graph.exprs
          /\ graph'.inputs = graph.inputs
          /\ UNCHANGED <<pc, plan, runnable, buffers, ip, results>>]_vars

\* A node that an op reads has been marked as an output twice.
C28_Witness ==
    /\ pc = "build"
    /\ NodeCount = 2
    /\ IsOp(1) /\ Node(1).children = <<0>>
    /\ graph.outputs = <<0, 0>>
    /\ DOMAIN Node(0).usages = {1}

\* The number of times c occurs in the children list of op node u.
Occurrences(c, u) ==
    Cardinality({i \in 1..Len(Node(u).children) : Node(u).children[i] = c})

(* C29: after any sequence of construction calls that returned (the graph  *)
(* does not change once construction is over), the usage                    *)
(* count a node c records for an op node u is the number of times c occurs *)
(* in u's children list, and c records no usage for anything that does not *)
(* list it as a child.                                                      *)
C29_UsageCountsMatchChildren ==
    pc = "build" =>
        \A c \in Ids :
            /\ DOMAIN Node(c).usages = Consumers(c)
            /\ \A u \in Consumers(c) : Node(c).usages[u] = Occurrences(c, u)

\* A node is read twice by one op and once by another.
C29_Witness ==
    /\ pc = "build"
    /\ NodeCount = 3
    /\ Node(1).children = <<0, 0>> /\ Node(2).children = <<0>>
    /\ Node(0).usages[1] = 2 /\ Node(0).usages[2] = 1
    /\ DOMAIN Node(1).usages = {}
====
